---- MODULE Spec2Model ----
(***************************************************************************)
(* A model of rust-efsm: the interval type (Bound / TransitionBound), the  *)
(* machine and its executor (Machine::exec, Machine::transition), the      *)
(* complement, the bounded symbolic search (Machine::find_non_empty) and   *)
(* the two-sided runtime monitor (Monitor, PartialMonitor).                *)
(*                                                                         *)
(* The register type D is instantiated as u8 and the update as the         *)
(* library's AddUpdate; inputs are the bytes 'b' and 'c' of the examples.  *)
(***************************************************************************)
EXTENDS Integers, Sequences, FiniteSets, TLC

\* ------------------------------------------------------------------ bounds
\* Longest input word fed to exec or to the monitor.
MaxInputs == 4
\* Longest extension of a monitored prefix the verdict claims look at.
MaxExt == 3
\* Longest concrete run the soundness claim of find_non_empty looks at.
MaxRun == 3

\* ------------------------------------------------------- the register type
\* D = u8: D::min_value(), D::max_value().
MinD == 0
MaxD == 255
\* Option::None of an interval endpoint (Some(d) is d itself).
None == -1
\* The node budget of find_non_empty.
MAX_NODES == 100

D == MinD..MaxD
Inputs == {"b", "c"}
Locs == {"s0", "s1", "s3"}

Min2(a, b) == IF a <= b THEN a ELSE b
Max2(a, b) == IF a >= b THEN a ELSE b

\* ---------------------------------------------------------------- Bound<D>
unbounded == [lower |-> None, upper |-> None]

as_explicit(bound) ==
    << IF bound.lower = None THEN MinD ELSE bound.lower,
       IF bound.upper = None THEN MaxD ELSE bound.upper >>

from_explicit(pair) ==
    [lower |-> IF pair[1] = MinD THEN None ELSE pair[1],
     upper |-> IF pair[2] = MaxD THEN None ELSE pair[2]]

\* An intersection that takes intervals meeting in one endpoint for disjoint.
intersect_strict(self, other) ==
    LET s == as_explicit(self)
        o == as_explicit(other)
    IN  IF s[1] >= o[2] \/ s[2] <= o[1]
        THEN << >>
        ELSE << from_explicit(<< Max2(s[1], o[1]), Min2(s[2], o[2]) >>) >>

\* An intersection that keeps the receiver's lower endpoint.
intersect_keep_lower(self, other) ==
    LET s == as_explicit(self)
        o == as_explicit(other)
    IN  IF s[1] > o[2] \/ s[2] < o[1]
        THEN << >>
        ELSE << from_explicit(<< s[1], Min2(s[2], o[2]) >>) >>

\* An intersection that keeps the receiver's upper endpoint.
intersect_keep_upper(self, other) ==
    LET s == as_explicit(self)
        o == as_explicit(other)
    IN  IF s[1] > o[2] \/ s[2] < o[1]
        THEN << >>
        ELSE << from_explicit(<< Max2(s[1], o[1]), s[2] >>) >>

\* Option<Bound>: <<>> is None, <<b>> is Some(b).
intersect(self, other) ==
    LET s == as_explicit(self)
        o == as_explicit(other)
    IN  IF s[1] > o[2] \/ s[2] < o[1]
        THEN << >>
        ELSE << from_explicit(<< Max2(s[1], o[1]), Min2(s[2], o[2]) >>) >>

\* A union that narrows the receiver to the part the two intervals share.
union_with_narrowing(self, rhs) ==
    LET l == as_explicit(self)
        r == as_explicit(rhs)
    IN  [lower |-> Max2(l[1], r[1]), upper |-> Min2(l[2], r[2])]

\* A union that keeps only the interval written last.
union_with_overwrite(self, rhs) == rhs

\* The receiver after self.union_with(rhs) (Bound::make_contain).
union_with(self, rhs) ==
    LET l == as_explicit(self)
        r == as_explicit(rhs)
    IN  [lower |-> Min2(l[1], r[1]), upper |-> Max2(l[2], r[2])]

contains(bound, data) ==
    LET e == as_explicit(bound) IN data >= e[1] /\ data <= e[2]

contains_interval(self, rhs) ==
    LET l == as_explicit(self)
        r == as_explicit(rhs)
    IN  l[1] <= r[1] /\ l[2] >= r[2]

\* ---------------------------------------------------------------- AddUpdate
\* `data + self.amount` overflows u8: a panic when the build checks overflow,
\* a wrapped sum otherwise.
add_overflows(data, amount) == data + amount > MaxD
wrapping_add(data, amount) == (data + amount) % (MaxD + 1)

\* The update of the not_spawn_until_init example that overwrites the boolean
\* register with true (UpdateType::True); an amount of 0 is UpdateType::Identity.
SetTrue == -2

update(amount, data) == IF amount = SetTrue THEN 1 ELSE wrapping_add(data, amount)

\* A lift whose upper endpoint wraps around like the lower one.
update_interval_wrapping(a, interval) ==
    LET e == as_explicit(interval)
    IN  [lower |-> wrapping_add(e[1], a), upper |-> wrapping_add(e[2], a)]

update_interval(amount, interval) ==
    LET e == as_explicit(interval)
    IN  [lower |-> wrapping_add(e[1], amount),
         upper |-> IF add_overflows(e[2], amount) THEN None ELSE e[2] + amount]

update_interval_overflows(amount, interval) ==
    add_overflows(as_explicit(interval)[1], amount)

\* --------------------------------------------------------------- Transition
\* enable is a user closure fn(&D, &I) -> bool; the closures of the model test
\* the input byte (sym) and whether the register lies within an interval.
Enable(sym, within) == [sym |-> sym, within |-> within]

enable_ignoring_register(guard, data, input) ==
    \/ guard.sym = "any"
    \/ guard.sym = "eq_b" /\ input = "b"
    \/ guard.sym = "ne_b" /\ input # "b"
    \/ guard.sym = input

enable(guard, data, input) ==
    /\ \/ guard.sym = "any"
       \/ guard.sym = "eq_b" /\ input = "b"
       \/ guard.sym = "ne_b" /\ input # "b"
       \/ guard.sym = input
    /\ contains(guard.within, data)

Transition(to_location, guard, bound, amount) ==
    [to_location |-> to_location, enable |-> guard, bound |-> bound, update |-> amount]

UpTo(u) == [lower |-> None, upper |-> u]
From(l) == [lower |-> l, upper |-> None]

\* ------------------------------------------------------------------ Machine
\* locations: HashMap<String, Vec<Transition>> (a key exists only for a location
\* with at least one outgoing transition); accepting: HashSet<String>.
Machine_new(lists, accepting) ==
    [locations |-> [l \in {k \in DOMAIN lists : lists[k] # << >>} |-> lists[l]],
     accepting |-> accepting]

\* The outgoing transition lists the machines of the model are built from.
S0Lists ==
    { \* examples/monitor.rs
      << Transition("s0", Enable("ne_b", unbounded), UpTo(10), 0),
         Transition("s1", Enable("eq_b", unbounded), UpTo(3), 1) >>,
      \* the same with an unbounded self-loop
      << Transition("s0", Enable("ne_b", unbounded), unbounded, 0),
         Transition("s1", Enable("eq_b", unbounded), UpTo(3), 1) >>,
      \* the self-loop inserted last
      << Transition("s1", Enable("eq_b", unbounded), unbounded, 0),
         Transition("s0", Enable("ne_b", unbounded), unbounded, 0) >>,
      \* guards on the register that agree with the bounds
      << Transition("s0", Enable("any", UpTo(3)), UpTo(3), 1),
         Transition("s1", Enable("any", From(4)), From(4), 0) >>,
      \* two transitions enabled on 'b'
      << Transition("s0", Enable("any", unbounded), unbounded, 1),
         Transition("s1", Enable("eq_b", unbounded), unbounded, 0) >> }

S1Lists ==
    { << >>,
      \* examples/monitor.rs
      << Transition("s1", Enable("eq_b", unbounded), unbounded, 1),
         Transition("s3", Enable("ne_b", unbounded), UpTo(3), 0) >>,
      << Transition("s1", Enable("any", unbounded), unbounded, 0) >>,
      << Transition("s0", Enable("ne_b", unbounded), unbounded, 0),
         Transition("s3", Enable("eq_b", unbounded), From(MaxD), 1) >> }

S3Lists ==
    { << >>,
      << Transition("s3", Enable("any", unbounded), unbounded, 0) >> }

AcceptingSets == { {"s1"}, {"s0"}, {"s0", "s1"}, {"s3"} }

\* The machine of examples/non_empty.rs; D is u8 here, the guards name the byte
\* they accept.
NonEmptyExample ==
    Machine_new(
        [l \in Locs |->
            CASE l = "s0" ->
                    << Transition("s1", Enable("c", unbounded), unbounded, 1),
                       Transition("s0", Enable("b", unbounded), unbounded, 0) >>
              [] l = "s1" ->
                    << Transition("s1", Enable("a", unbounded), UpTo(7), 4),
                       Transition("s0", Enable("d", unbounded), From(8), 0),
                       Transition("s1", Enable("t", unbounded), unbounded, 0) >>
              [] OTHER -> << >>],
        {"s1"})

Machines ==
    { Machine_new([l \in Locs |-> CASE l = "s0" -> a [] l = "s1" -> b [] OTHER -> c], acc) :
        a \in S0Lists, b \in S1Lists, c \in S3Lists, acc \in AcceptingSets }
        \cup { NonEmptyExample }

InitLocations == {"s0", "s1"}
MonitorLocations == {"s0"}
InitData == {0, 3, MaxD}

\* -------------------------------------------------------------------- state
VARIABLES
    machine,          \* the machine built by the user
    overflow_checks,  \* whether the build panics on integer overflow
    init_location,    \* the location and data passed to exec / Monitor::new
    init_data,
    word,             \* the inputs consumed so far
    ex_pc,            \* Machine::exec: "idle", "loop", "done", "panicked"
    states,           \* the frontier of exec
    result,           \* the value exec returned
    fne_pc,           \* Machine::find_non_empty: "idle", "loop", "done", "panicked"
    fne_self,         \* the machine find_non_empty runs on
    safe,             \* its map location -> interval
    nodes,            \* its arena of PathNodes
    nodes_to_visit,   \* its stack of arena indices
    mon_pc,           \* the Monitor: "idle", "ready", "panicked"
    prover,           \* its PartialMonitor on the complement
    falsifier,        \* its PartialMonitor on the machine
    verdicts,         \* what each call of Monitor::next returned, in order
    bnd_pc,           \* the Bound operation applied last: "idle", "new", "clone", ...
    lhs,              \* a Bound: the receiver of the operations
    rhs,              \* a Bound: their argument
    out,              \* the Option<Bound> returned by intersect, or the
                      \* Bound returned by from_explicit as Some
    pair,             \* the (D, D) returned by as_explicit, << >> before a call
    applied,          \* the amount of the AddUpdate applied last
    bld_pc,           \* the MachineBuilder: "idle", "building", "built"
    builder,          \* its locations and accepting fields
    calls             \* the with_transition / with_accepting calls made, in order

env == << machine, overflow_checks, init_location, init_data >>
ex == << ex_pc, states, result >>
fne == << fne_pc, fne_self, safe, nodes, nodes_to_visit >>
mon == << mon_pc, prover, falsifier, verdicts >>
bnd == << bnd_pc, lhs, rhs, out, pair, applied >>
bld == << bld_pc, builder, calls >>
vars == << env, word, ex, fne, mon, bnd, bld >>

State(location, data) == [location |-> location, data |-> data]

\* ----------------------------------------------------- Machine::transition
\* The transitions of one configuration that are enabled and whose bound
\* contains the register.
RECURSIVE enabled_from_within_bound(_, _, _)
enabled_from_within_bound(transitions, data, i) ==
    IF transitions = << >> THEN << >>
    ELSE LET t == Head(transitions)
             rest == enabled_from_within_bound(Tail(transitions), data, i)
         IN  IF enable(t.enable, data, i) /\ contains(t.bound, data)
             THEN << t >> \o rest ELSE rest

\* The enabled transitions of one configuration, in insertion order.
RECURSIVE enabled_from(_, _, _)
enabled_from(transitions, data, i) ==
    IF transitions = << >> THEN << >>
    ELSE LET t == Head(transitions)
             rest == enabled_from(Tail(transitions), data, i)
         IN  IF enable(t.enable, data, i) THEN << t >> \o rest ELSE rest

\* A step that keeps the successor of the last enabled transition only.
successors_last_only(ts, data) ==
    IF ts = << >> THEN << >>
    ELSE << State(ts[Len(ts)].to_location, update(ts[Len(ts)].update, data)) >>

RECURSIVE successors(_, _)
successors(ts, data) ==
    IF ts = << >> THEN << >>
    ELSE << State(Head(ts).to_location, update(Head(ts).update, data)) >>
            \o successors(Tail(ts), data)

transitions_from(self, location) ==
    IF location \in DOMAIN self.locations THEN self.locations[location] ELSE << >>

\* A step that drops a successor equal to one already in the next frontier.
RECURSIVE transition_deduplicated(_, _, _)
transition_deduplicated(self, i, sts) ==
    IF sts = << >> THEN << >>
    ELSE LET s == sts[Len(sts)]
             before == transition_deduplicated(self, i, SubSeq(sts, 1, Len(sts) - 1))
             more == successors(enabled_from(transitions_from(self, s.location), s.data, i), s.data)
         IN  before \o SelectSeq(more, LAMBDA n : \A k \in 1..Len(before) : before[k] # n)

RECURSIVE transition(_, _, _)
transition(self, i, sts) ==
    IF sts = << >> THEN << >>
    ELSE LET s == Head(sts)
         IN  successors(enabled_from(transitions_from(self, s.location), s.data, i), s.data)
                \o transition(self, i, Tail(sts))

\* Some enabled transition of the frontier overflows the register.
transition_overflows(self, i, sts) ==
    \E k \in 1..Len(sts) :
        LET ts == enabled_from(transitions_from(self, sts[k].location), sts[k].data, i)
        IN  \E j \in 1..Len(ts) : add_overflows(sts[k].data, ts[j].update)

\* ------------------------------------------------------------ Machine::exec
\* A result that looks at the last configuration of the frontier only.
accepting_fold_last(self, sts) ==
    sts # << >> /\ sts[Len(sts)].location \in self.accepting

\* A result that is true whenever a configuration survives.
accepting_fold_nonempty(self, sts) == sts # << >>

\* A fold with `&&` in place of `||`.
RECURSIVE fold_and(_, _, _)
fold_and(self, sts, acc) ==
    IF sts = << >> THEN acc
    ELSE fold_and(self, Tail(sts), acc /\ (Head(sts).location \in self.accepting))

\* states.iter().map(accepting.contains).fold(false, |acc, accept| acc || accept)
RECURSIVE fold_or(_, _, _)
fold_or(self, sts, acc) ==
    IF sts = << >> THEN acc
    ELSE fold_or(self, Tail(sts), acc \/ (Head(sts).location \in self.accepting))

\* A result that asks every configuration of the frontier to be accepting.
accepting_fold_all(self, sts) ==
    \A k \in 1..Len(sts) : sts[k].location \in self.accepting

accepting_fold(self, sts) == fold_or(self, sts, FALSE)

ExecCall(location, data) ==
    /\ ex_pc = "idle"
    /\ init_location' = location
    /\ init_data' = data
    /\ states' = << State(location, data) >>
    /\ ex_pc' = "loop"
    /\ UNCHANGED << machine, overflow_checks, word, result, fne, mon, bnd, bld >>

\* One iteration of `for i in input`.
ExecLoop(i) ==
    /\ ex_pc = "loop"
    /\ Len(word) < MaxInputs
    /\ word' = Append(word, i)
    /\ IF overflow_checks /\ transition_overflows(machine, i, states)
       THEN ex_pc' = "panicked" /\ UNCHANGED states
       ELSE ex_pc' = "loop" /\ states' = transition(machine, i, states)
    /\ UNCHANGED << env, result, fne, mon, bnd, bld >>

\* The input is exhausted: the fold over the frontier.
ExecReturn ==
    /\ ex_pc = "loop"
    /\ result' = accepting_fold(machine, states)
    /\ ex_pc' = "done"
    /\ UNCHANGED << env, word, states, fne, mon, bnd, bld >>

\* ----------------------------------------------------------- MachineBuilder
\* MachineBuilder::new(): no location, no accepting location.
MachineBuilder_new == [locations |-> << >>, accepting |-> {}]

\* A with_transition that puts the transition in front of the location's list.
with_transition_prepending(self, from_location, t) ==
    LET old == IF from_location \in DOMAIN self.locations
               THEN self.locations[from_location] ELSE << >>
    IN  [self EXCEPT !.locations = (from_location :> (<< t >> \o old)) @@ self.locations]

\* self.locations.entry(from_location).or_insert(Vec::new()).push(transition)
with_transition(self, from_location, t) ==
    LET old == IF from_location \in DOMAIN self.locations
               THEN self.locations[from_location] ELSE << >>
    IN  [self EXCEPT !.locations = (from_location :> Append(old, t)) @@ self.locations]

\* self.accepting.insert(location)
with_accepting(self, location) ==
    [self EXCEPT !.accepting = self.accepting \cup {location}]

\* Machine::new(self.locations, self.accepting)
build(self) == Machine_new(self.locations, self.accepting)

\* No MachineBuilder is in use.
BldIdle ==
    /\ bld_pc = "idle"
    /\ builder = MachineBuilder_new
    /\ calls = << >>

\* The user has built a machine; no operation has been called yet.
InitEnv ==
    /\ machine \in Machines
    /\ overflow_checks \in BOOLEAN
    /\ init_location = "s0"
    /\ init_data = 0
    /\ word = << >>

ExecIdle ==
    /\ ex_pc = "idle"
    /\ states = << >>
    /\ result = FALSE

FneIdle ==
    /\ fne_pc = "idle"
    /\ fne_self = machine
    /\ safe = << >>
    /\ nodes = << >>
    /\ nodes_to_visit = << >>

MonIdle ==
    /\ mon_pc = "idle"
    /\ prover = << >>
    /\ falsifier = << >>
    /\ verdicts = << >>

\* No Bound operation has been applied.
BndIdle ==
    /\ bnd_pc = "idle"
    /\ lhs = unbounded
    /\ rhs = unbounded
    /\ out = << >>
    /\ pair = << >>
    /\ applied = 0

InitExec == InitEnv /\ ExecIdle /\ FneIdle /\ MonIdle /\ BndIdle /\ BldIdle

NextExec ==
    \/ \E location \in InitLocations, data \in InitData : ExecCall(location, data)
    \/ \E i \in Inputs : ExecLoop(i)
    \/ ExecReturn

SpecExec == InitExec /\ [][NextExec]_vars

\* ------------------------------------------- examples/not_spawn_until_init
\* The inputs are the atomic propositions of enum Ap; the register is a bool,
\* written 0 for false and 1 for true.
Ap == {"Init", "Spawn", "Other"}
Bool == {0, 1}

NotSpawnUntilInit ==
    Machine_new(
        [l \in {"Accept"} |->
            << Transition("Accept", Enable("Other", unbounded), unbounded, 0),
               Transition("Accept", Enable("Init", unbounded), unbounded, SetTrue),
               Transition("Accept", Enable("Spawn", From(1)), unbounded, SetTrue) >>],
        {"Accept"})

InitNotSpawnUntilInit ==
    /\ machine = NotSpawnUntilInit
    /\ overflow_checks \in BOOLEAN
    /\ init_location = "Accept"
    /\ init_data = 0
    /\ word = << >>
    /\ ExecIdle /\ FneIdle /\ MonIdle /\ BndIdle /\ BldIdle

NextNotSpawnUntilInit ==
    \/ \E data \in Bool : ExecCall("Accept", data)
    \/ \E i \in Ap : ExecLoop(i)
    \/ ExecReturn

SpecNotSpawnUntilInit == InitNotSpawnUntilInit /\ [][NextNotSpawnUntilInit]_vars

\* ------------------------------------------------------ Machine::complement
\* A complement that accepts at every location with outgoing transitions.
complement_accepting_all(self) ==
    [self EXCEPT !.accepting = DOMAIN self.locations]

\* A complement that also accepts at the locations that are only the target of
\* a transition.
complement_with_targets(self) ==
    [self EXCEPT !.accepting =
        ( DOMAIN self.locations
            \cup UNION { { self.locations[l][k].to_location : k \in 1..Len(self.locations[l]) } :
                           l \in DOMAIN self.locations } ) \ self.accepting ]

\* A complement that leaves the accepting set as it is.
complement_keeps_accepting(self) == self

complement(self) ==
    [self EXCEPT !.accepting =
        { loc \in DOMAIN self.locations : loc \notin self.accepting } ]

\* -------------------------------------------------- Machine::find_non_empty
\* PathNode; parent is << >> (None) or << parent idx, bound >>. Arena indices
\* count from 0 as in the source: nodes[idx] of the source is At(nodes, idx).
\* A node that names itself as its parent.
PathNode_own_parent(idx, parent, location, interval) ==
    [idx |-> idx,
     parent |-> IF parent = << >> THEN << >> ELSE << idx, parent[2] >>,
     location |-> location, interval |-> interval]

PathNode(idx, parent, location, interval) ==
    [idx |-> idx, parent |-> parent, location |-> location, interval |-> interval]

At(table, idx) == table[idx + 1]

\* PathNode::path_to. One iteration of its `loop`: push next, then follow the
\* parent index or break.
path_to_iteration(table, st) ==
    IF st.done THEN st
    ELSE LET node == At(table, st.next)
         IN  [path |-> Append(st.path, st.next),
              next |-> IF node.parent # << >> THEN node.parent[1] ELSE st.next,
              done |-> node.parent = << >>]

\* n iterations, by halving.
RECURSIVE path_to_repeat(_, _, _)
path_to_repeat(table, n, st) ==
    IF n = 0 THEN st
    ELSE IF n = 1 THEN path_to_iteration(table, st)
    ELSE LET half == path_to_repeat(table, n \div 2, st)
         IN  IF half.done THEN half ELSE path_to_repeat(table, n - (n \div 2), half)

reverse(path) == [k \in 1..Len(path) |-> path[Len(path) + 1 - k]]

\* The arena indices from the root to idx: a parent index is smaller than its
\* child's, so the loop breaks within Len(table) iterations.
path_to(table, idx) ==
    reverse(path_to_repeat(table, Len(table), [path |-> << >>, next |-> idx, done |-> FALSE]).path)

\* safe.entry(location).and_modify(|bound| bound.union_with(&safe_interval))
\*     .or_insert(safe_interval)
entry_union(map, location, safe_interval) ==
    IF location \in DOMAIN map
    THEN (location :> union_with(map[location], safe_interval)) @@ map
    ELSE (location :> safe_interval) @@ map

\* A loop body that writes the interval of the child node instead of the
\* interval annotated on the edge to it.
add_edge_child_interval(map, table, idx) ==
    LET node == At(table, idx)
    IN  IF node.parent = << >> THEN map
        ELSE entry_union(map, At(table, node.parent[1]).location, node.interval)

\* The body of the loop over path_iter.filter_map(parent).map((location of
\* parent, bound)) for one index of the path.
add_edge(map, table, idx) ==
    LET node == At(table, idx)
    IN  IF node.parent = << >> THEN map
        ELSE entry_union(map, At(table, node.parent[1]).location, node.parent[2])

\* That loop over path[lo..hi], in order, by halving.
RECURSIVE add_path_range(_, _, _, _, _)
add_path_range(map, table, path, lo, hi) ==
    IF lo > hi THEN map
    ELSE IF lo = hi THEN add_edge(map, table, path[lo])
    ELSE LET mid == (lo + hi) \div 2
             left == add_path_range(map, table, path, lo, mid)
         IN  IF DOMAIN left = {} THEN add_path_range(map, table, path, mid + 1, hi)
             ELSE add_path_range(left, table, path, mid + 1, hi)

add_path(map, table, path) == add_path_range(map, table, path, 1, Len(path))

\* The loop over the transitions out of nodes[idx]: the arena and the stack
\* after it.
RECURSIVE explore(_, _, _, _)
explore(table, stack, idx, transitions) ==
    IF transitions = << >> THEN << table, stack >>
    ELSE LET trans == Head(transitions)
             child_idx == Len(table)
             post == intersect(At(table, idx).interval, trans.bound)
         IN  IF post # << >>
             THEN explore(
                    Append(table, PathNode(child_idx, << idx, post[1] >>, trans.to_location,
                                           update_interval(trans.update, post[1]))),
                    Append(stack, child_idx), idx, Tail(transitions))
             ELSE explore(table, stack, idx, Tail(transitions))

\* update_interval overflows on some transition out of the node.
explore_overflows(interval, transitions) ==
    \E k \in 1..Len(transitions) :
        LET post == intersect(interval, transitions[k].bound)
        IN  post # << >> /\ update_interval_overflows(transitions[k].update, post[1])

\* The hit test of a popped node.
is_hit(self, map, current) ==
    \/ /\ current.location \in DOMAIN map
       /\ contains_interval(map[current.location], current.interval)
    \/ current.location \in self.accepting

\* The code up to the search loop.
fne_enter(self, location) ==
    [pc |-> "loop",
     safe |-> [l \in self.accepting |-> unbounded],
     nodes |-> << PathNode(0, << >>, location, unbounded) >>,
     nodes_to_visit |-> << 0 >>]

\* A loop that goes on for as long as the stack holds a node.
fne_continues_unbudgeted(st) ==
    st.pc = "loop" /\ st.nodes_to_visit # << >>

\* `while nodes.len() <= MAX_NODES` goes on and pops a node.
fne_continues(st) ==
    st.pc = "loop" /\ Len(st.nodes) <= MAX_NODES /\ st.nodes_to_visit # << >>

\* One iteration of the search loop that pops a node.
fne_iteration(self, checks, st) ==
    LET idx == st.nodes_to_visit[Len(st.nodes_to_visit)]
        stack == SubSeq(st.nodes_to_visit, 1, Len(st.nodes_to_visit) - 1)
        current == At(st.nodes, idx)
        marked == IF is_hit(self, st.safe, current)
                  THEN add_path(st.safe, st.nodes, path_to(st.nodes, idx))
                  ELSE st.safe
        transitions == transitions_from(self, current.location)
        after == explore(st.nodes, stack, idx, transitions)
    IN  IF checks /\ explore_overflows(current.interval, transitions)
        THEN [pc |-> "panicked", safe |-> marked, nodes |-> st.nodes,
              nodes_to_visit |-> stack]
        ELSE [pc |-> "loop", safe |-> marked, nodes |-> after[1],
              nodes_to_visit |-> after[2]]

\* What the loop does next: another iteration, or nothing once it is left (the
\* budget is exceeded or the stack is empty: Ok(safe)) or has panicked.
fne_advance(self, checks, st) ==
    IF st.pc # "loop" THEN st
    ELSE IF fne_continues(st) THEN fne_iteration(self, checks, st)
    ELSE [st EXCEPT !.pc = "done"]

\* n times fne_advance, by halving.
RECURSIVE fne_repeat(_, _, _, _)
fne_repeat(self, checks, n, st) ==
    IF n = 0 THEN st
    ELSE IF n = 1 THEN fne_advance(self, checks, st)
    ELSE LET half == fne_repeat(self, checks, n \div 2, st)
         IN  IF half.pc = "loop"
             THEN fne_repeat(self, checks, n - (n \div 2), half)
             ELSE half

\* The whole of find_non_empty: the state when the loop is left. An iteration
\* pops an arena index below MAX_NODES that was pushed once, so the loop is left
\* after MAX_NODES iterations at most.
find_non_empty(self, checks, location) ==
    fne_repeat(self, checks, MAX_NODES + 2, fne_enter(self, location))

fne_state == [pc |-> fne_pc, safe |-> safe, nodes |-> nodes, nodes_to_visit |-> nodes_to_visit]

fne_becomes(st) ==
    /\ fne_pc' = st.pc
    /\ safe' = st.safe
    /\ nodes' = st.nodes
    /\ nodes_to_visit' = st.nodes_to_visit

\* find_non_empty(location) called on the machine: the code up to the loop.
FneCall(location) ==
    /\ fne_pc = "idle"
    /\ init_location' = location
    /\ fne_self' = machine
    /\ fne_becomes(fne_enter(machine, location))
    /\ UNCHANGED << machine, overflow_checks, init_data, word, ex, mon, bnd, bld >>

FneLoop ==
    /\ fne_continues(fne_state)
    /\ fne_becomes(fne_iteration(fne_self, overflow_checks, fne_state))
    /\ UNCHANGED << env, word, ex, fne_self, mon, bnd, bld >>

\* The loop ends: the budget is exceeded or the stack is empty; Ok(safe).
FneReturn ==
    /\ fne_pc = "loop"
    /\ ~fne_continues(fne_state)
    /\ fne_pc' = "done"
    /\ UNCHANGED << env, word, ex, fne_self, safe, nodes, nodes_to_visit, mon, bnd, bld >>

InitFne == InitEnv /\ ExecIdle /\ FneIdle /\ MonIdle /\ BndIdle /\ BldIdle

NextFne ==
    \/ \E location \in Locs : FneCall(location)
    \/ FneLoop
    \/ FneReturn

SpecFne == InitFne /\ [][NextFne]_vars

\* ----------------------------------------------------------- PartialMonitor
PartialMonitor(state, self, non_empty_states) ==
    [state |-> state, machine |-> self, non_empty_states |-> non_empty_states]

\* PartialMonitor::falsify_from once find_non_empty has returned Ok(found.safe).
falsify_from(location, data, self, found) ==
    PartialMonitor(State(location, data), self, found.safe)

\* A step that makes do with any non-empty set of successors.
partial_next_lenient(pm, checks, input) ==
    LET next == transition(pm.machine, input, << pm.state >>)
    IN  IF checks /\ transition_overflows(pm.machine, input, << pm.state >>)
        THEN [ret |-> "panic", pm |-> pm]
        ELSE IF Len(next) >= 1
        THEN LET location == next[Len(next)].location
                 data == next[Len(next)].data
             IN  IF /\ location \in DOMAIN pm.non_empty_states
                    /\ contains(pm.non_empty_states[location], data)
                 THEN [ret |-> "Ok(false)", pm |-> [pm EXCEPT !.state = State(location, data)]]
                 ELSE [ret |-> "Ok(true)", pm |-> pm]
        ELSE [ret |-> "Err(TransitionFailed)", pm |-> pm]

\* A step that is inconclusive whenever the map has an entry for the successor's
\* location, whatever its interval.
partial_next_ignoring_interval(pm, checks, input) ==
    LET next == transition(pm.machine, input, << pm.state >>)
    IN  IF checks /\ transition_overflows(pm.machine, input, << pm.state >>)
        THEN [ret |-> "panic", pm |-> pm]
        ELSE IF Len(next) = 1
        THEN LET location == next[1].location
                 data == next[1].data
             IN  IF location \in DOMAIN pm.non_empty_states
                 THEN [ret |-> "Ok(false)", pm |-> [pm EXCEPT !.state = State(location, data)]]
                 ELSE [ret |-> "Ok(true)", pm |-> pm]
        ELSE [ret |-> "Err(TransitionFailed)", pm |-> pm]

\* A step that moves to the successor also when it is conclusive.
partial_next_moving_when_conclusive(pm, checks, input) ==
    LET next == transition(pm.machine, input, << pm.state >>)
    IN  IF checks /\ transition_overflows(pm.machine, input, << pm.state >>)
        THEN [ret |-> "panic", pm |-> pm]
        ELSE IF Len(next) = 1
        THEN LET location == next[1].location
                 data == next[1].data
                 moved == [pm EXCEPT !.state = State(location, data)]
             IN  IF /\ location \in DOMAIN pm.non_empty_states
                    /\ contains(pm.non_empty_states[location], data)
                 THEN [ret |-> "Ok(false)", pm |-> moved]
                 ELSE [ret |-> "Ok(true)", pm |-> moved]
        ELSE [ret |-> "Err(TransitionFailed)", pm |-> pm]

\* PartialMonitor::next: what it returns ("Ok(true)", "Ok(false)",
\* "Err(TransitionFailed)", or "panic" when the update overflows) and the
\* partial monitor afterwards.
partial_next(pm, checks, input) ==
    LET next == transition(pm.machine, input, << pm.state >>)
    IN  IF checks /\ transition_overflows(pm.machine, input, << pm.state >>)
        THEN [ret |-> "panic", pm |-> pm]
        ELSE IF Len(next) = 1
        THEN LET location == next[1].location
                 data == next[1].data
             IN  IF /\ location \in DOMAIN pm.non_empty_states
                    /\ contains(pm.non_empty_states[location], data)
                 THEN [ret |-> "Ok(false)", pm |-> [pm EXCEPT !.state = State(location, data)]]
                 ELSE [ret |-> "Ok(true)", pm |-> pm]
        ELSE [ret |-> "Err(TransitionFailed)", pm |-> pm]

\* ------------------------------------------------------------------ Monitor
\* A Monitor::next that consults the falsifier before the prover.
monitor_next_falsifier_first(p, f, checks, input) ==
    LET fr == partial_next(f, checks, input)
        pr == partial_next(p, checks, input)
    IN  IF fr.ret \in {"panic", "Err(TransitionFailed)"}
        THEN [ret |-> fr.ret, prover |-> p, falsifier |-> f]
        ELSE IF fr.ret = "Ok(true)"
        THEN [ret |-> "Some(false)", prover |-> p, falsifier |-> f]
        ELSE IF pr.ret \in {"panic", "Err(TransitionFailed)"}
        THEN [ret |-> pr.ret, prover |-> p, falsifier |-> fr.pm]
        ELSE IF pr.ret = "Ok(true)"
        THEN [ret |-> "Some(true)", prover |-> p, falsifier |-> fr.pm]
        ELSE [ret |-> "None", prover |-> pr.pm, falsifier |-> fr.pm]

\* A Monitor::next that steps the falsifier only to decide, and leaves it
\* where it was.
monitor_next_prover_only(p, f, checks, input) ==
    LET pr == partial_next(p, checks, input)
        fr == partial_next(f, checks, input)
    IN  IF pr.ret \in {"panic", "Err(TransitionFailed)"}
        THEN [ret |-> pr.ret, prover |-> p, falsifier |-> f]
        ELSE IF pr.ret = "Ok(true)"
        THEN [ret |-> "Some(true)", prover |-> p, falsifier |-> f]
        ELSE IF fr.ret \in {"panic", "Err(TransitionFailed)"}
        THEN [ret |-> fr.ret, prover |-> pr.pm, falsifier |-> f]
        ELSE IF fr.ret = "Ok(true)"
        THEN [ret |-> "Some(false)", prover |-> pr.pm, falsifier |-> f]
        ELSE [ret |-> "None", prover |-> pr.pm, falsifier |-> f]

\* Monitor::next on the two partial monitors p and f: what it returns and the
\* partial monitors afterwards.
monitor_next(p, f, checks, input) ==
    LET pr == partial_next(p, checks, input)
        fr == partial_next(f, checks, input)
    IN  IF pr.ret \in {"panic", "Err(TransitionFailed)"}
        THEN [ret |-> pr.ret, prover |-> pr.pm, falsifier |-> f]
        ELSE IF pr.ret = "Ok(true)"
        THEN [ret |-> "Some(true)", prover |-> pr.pm, falsifier |-> f]
        ELSE IF fr.ret \in {"panic", "Err(TransitionFailed)"}
        THEN [ret |-> fr.ret, prover |-> pr.pm, falsifier |-> fr.pm]
        ELSE IF fr.ret = "Ok(true)"
        THEN [ret |-> "Some(false)", prover |-> pr.pm, falsifier |-> fr.pm]
        ELSE [ret |-> "None", prover |-> pr.pm, falsifier |-> fr.pm]

\* Monitor::new(location, data, machine) enters prove_from: complement(), then
\* falsify_from on the complement, up to the search loop of find_non_empty.
\* find_non_empty does not read `data`: its value is drawn where the code first
\* reads it, in ProveFromReturn.
MonitorNew(location) ==
    /\ mon_pc = "idle"
    /\ init_location' = location
    /\ fne_self' = complement(machine)
    /\ fne_becomes(fne_enter(complement(machine), location))
    /\ mon_pc' = "prove_from"
    /\ UNCHANGED << machine, overflow_checks, init_data, word, ex, prover, falsifier, verdicts, bnd, bld >>

\* An iteration of the search loop of the find_non_empty that Monitor::new runs.
MonitorNewLoop ==
    /\ mon_pc \in {"prove_from", "falsify_from"}
    /\ fne_continues(fne_state)
    /\ LET st == fne_iteration(fne_self, overflow_checks, fne_state)
       IN  /\ fne_becomes(st)
           /\ mon_pc' = IF st.pc = "panicked" THEN "panicked" ELSE mon_pc
    /\ UNCHANGED << env, word, ex, fne_self, prover, falsifier, verdicts, bnd, bld >>

\* prove_from returns the prover, with State { location, data }; Monitor::new
\* enters falsify_from on the machine.
ProveFromReturn(data) ==
    /\ mon_pc = "prove_from"
    /\ fne_pc = "loop"
    /\ ~fne_continues(fne_state)
    /\ init_data' = data
    /\ prover' = falsify_from(init_location, data, fne_self, fne_state)
    /\ fne_self' = machine
    /\ fne_becomes(fne_enter(machine, init_location))
    /\ mon_pc' = "falsify_from"
    /\ UNCHANGED << machine, overflow_checks, init_location, word, ex, falsifier, verdicts, bnd, bld >>

\* falsify_from returns the falsifier and Monitor::new returns Ok(Monitor).
FalsifyFromReturn ==
    /\ mon_pc = "falsify_from"
    /\ fne_pc = "loop"
    /\ ~fne_continues(fne_state)
    /\ falsifier' = falsify_from(init_location, init_data, fne_self, fne_state)
    /\ fne_pc' = "done"
    /\ mon_pc' = "ready"
    /\ UNCHANGED << env, word, ex, fne_self, safe, nodes, nodes_to_visit, prover, verdicts, bnd, bld >>

MonitorNext(input) ==
    /\ mon_pc = "ready"
    /\ Len(word) < MaxInputs
    /\ LET r == monitor_next(prover, falsifier, overflow_checks, input)
       IN  /\ word' = Append(word, input)
           /\ prover' = r.prover
           /\ falsifier' = r.falsifier
           /\ IF r.ret = "panic"
              THEN mon_pc' = "panicked" /\ UNCHANGED verdicts
              ELSE mon_pc' = "ready" /\ verdicts' = Append(verdicts, r.ret)
    /\ UNCHANGED << env, ex, fne, bnd, bld >>

Init == InitEnv /\ ExecIdle /\ FneIdle /\ MonIdle /\ BndIdle /\ BldIdle

Next ==
    \/ \E location \in MonitorLocations : MonitorNew(location)
    \/ MonitorNewLoop
    \/ \E data \in InitData : ProveFromReturn(data)
    \/ FalsifyFromReturn
    \/ \E input \in Inputs : MonitorNext(input)

Spec == Init /\ [][Next]_vars

\* ------------------------------------------------ Bound: the operations alone
\* The endpoints of the intervals of the interval tests and documentation.
EndPoints == {None, 10, 15, 20}

\* The intervals a user writes: Bound { lower, upper } with lower <= upper and
\* the extremes written as None.
BoundLiterals ==
    { b \in [lower : EndPoints, upper : EndPoints] :
        as_explicit(b)[1] <= as_explicit(b)[2] }

\* let out = lhs.intersect(&rhs);
BoundIntersect ==
    /\ bnd_pc \notin {"idle", "panicked"}
    /\ out' = intersect(lhs, rhs)
    /\ bnd_pc' = "intersect"
    /\ UNCHANGED << env, word, ex, fne, mon, lhs, rhs, pair, applied, bld >>

\* lhs.union_with(&rhs);
BoundUnionWith ==
    /\ bnd_pc \notin {"idle", "panicked"}
    /\ lhs' = union_with(lhs, rhs)
    /\ bnd_pc' = "union_with"
    /\ UNCHANGED << env, word, ex, fne, mon, rhs, out, pair, applied, bld >>

\* let rhs = lhs.clone();
BoundClone ==
    /\ bnd_pc \notin {"idle", "panicked"}
    /\ rhs' = lhs
    /\ bnd_pc' = "clone"
    /\ UNCHANGED << env, word, ex, fne, mon, lhs, out, pair, applied, bld >>

\* let pair = lhs.as_explicit();
BoundAsExplicit ==
    /\ bnd_pc \notin {"idle", "panicked"}
    /\ pair' = as_explicit(lhs)
    /\ bnd_pc' = "as_explicit"
    /\ UNCHANGED << env, word, ex, fne, mon, lhs, rhs, out, applied, bld >>

\* let out = Bound::from_explicit(pair);
BoundFromExplicit ==
    /\ bnd_pc \notin {"idle", "panicked"}
    /\ pair # << >>
    /\ out' = << from_explicit(pair) >>
    /\ bnd_pc' = "from_explicit"
    /\ UNCHANGED << env, word, ex, fne, mon, lhs, rhs, pair, applied, bld >>

\* The amounts of the AddUpdates applied to the intervals.
Amounts == {0, 1, 5, 240}

\* let out = AddUpdate::from(a).update_interval(lhs.clone()); `lower + amount`
\* panics when the build checks overflow and the sum overflows.
BoundUpdateInterval(a) ==
    /\ bnd_pc \notin {"idle", "panicked"}
    /\ applied' = a
    /\ IF overflow_checks /\ update_interval_overflows(a, lhs)
       THEN bnd_pc' = "panicked" /\ UNCHANGED out
       ELSE bnd_pc' = "update_interval" /\ out' = << update_interval(a, lhs) >>
    /\ UNCHANGED << env, word, ex, fne, mon, lhs, rhs, pair, bld >>

\* Two intervals have been written; the machine is MachineBuilder::new().build().
InitBound ==
    /\ machine = Machine_new([l \in Locs |-> << >>], {})
    /\ overflow_checks \in BOOLEAN
    /\ init_location = "s0"
    /\ init_data = 0
    /\ word = << >>
    /\ ExecIdle /\ FneIdle /\ MonIdle /\ BldIdle
    /\ bnd_pc = "new"
    /\ lhs \in BoundLiterals
    /\ rhs \in BoundLiterals
    /\ out = << >>
    /\ pair = << >>
    /\ applied = 0

NextBound ==
    \/ BoundIntersect
    \/ BoundUnionWith
    \/ BoundClone
    \/ BoundAsExplicit
    \/ BoundFromExplicit
    \/ \E a \in Amounts : BoundUpdateInterval(a)

SpecBound == InitBound /\ [][NextBound]_vars

\* ------------------------------------------- MachineBuilder: build, then use
\* Longest sequence of with_transition and with_accepting calls before build.
MaxCalls == 3

BuilderLocations == {"s0", "s1"}

\* The transitions handed to with_transition: both are enabled on 'b'.
BuilderTransitions ==
    { Transition("s1", Enable("eq_b", unbounded), unbounded, 1),
      Transition("s0", Enable("any", unbounded), UpTo(10), 0) }

WithTransitionCall(location, t) == [op |-> "with_transition", location |-> location, transition |-> t]
WithAcceptingCall(location) == [op |-> "with_accepting", location |-> location]

\* builder = builder.with_transition(from_location, transition)
WithTransition(from_location, t) ==
    /\ bld_pc = "building"
    /\ Len(calls) < MaxCalls
    /\ builder' = with_transition(builder, from_location, t)
    /\ calls' = Append(calls, WithTransitionCall(from_location, t))
    /\ UNCHANGED << env, word, ex, fne, mon, bnd, bld_pc >>

\* builder = builder.with_accepting(location)
WithAccepting(location) ==
    /\ bld_pc = "building"
    /\ Len(calls) < MaxCalls
    /\ builder' = with_accepting(builder, location)
    /\ calls' = Append(calls, WithAcceptingCall(location))
    /\ UNCHANGED << env, word, ex, fne, mon, bnd, bld_pc >>

\* let machine = builder.build();
Build ==
    /\ bld_pc = "building"
    /\ machine' = build(builder)
    /\ bld_pc' = "built"
    /\ UNCHANGED << overflow_checks, init_location, init_data, word, ex, fne, mon, bnd,
                    builder, calls >>

\* MachineBuilder::new() has returned; there is no machine before build (the
\* variable holds the machine without locations). None of the transitions of
\* the builder overflows the register within the runs looked at.
InitBuilder ==
    /\ machine = Machine_new(<< >>, {})
    /\ overflow_checks = FALSE
    /\ init_location = "s0"
    /\ init_data = 0
    /\ word = << >>
    /\ ExecIdle /\ FneIdle /\ MonIdle /\ BndIdle
    /\ bld_pc = "building"
    /\ builder = MachineBuilder_new
    /\ calls = << >>

\* The built machine is used for one exec or for one find_non_empty.
NextBuilder ==
    \/ \E l \in BuilderLocations, t \in BuilderTransitions : WithTransition(l, t)
    \/ \E l \in BuilderLocations : WithAccepting(l)
    \/ Build
    \/ bld_pc = "built" /\ fne_pc = "idle" /\ ExecCall("s0", 0)
    \/ \E i \in Inputs : ExecLoop(i)
    \/ ExecReturn
    \/ bld_pc = "built" /\ ex_pc = "idle" /\ FneCall("s0")
    \/ FneLoop
    \/ FneReturn

SpecBuilder == InitBuilder /\ [][NextBuilder]_vars

\* ------------------------------------------------------------------- claims
\* The frontier reached from `sts` by one single-step transition per input of w.
RECURSIVE frontier_after(_, _, _)
frontier_after(self, w, sts) ==
    IF w = << >> THEN sts
    ELSE frontier_after(self, Tail(w), transition(self, Head(w), sts))

\* C1: exec(location, data, inputs) returns true if and only if the frontier
\* obtained from [(location, data)] by one single-step transition per input, in
\* order, holds a configuration at an accepting location.
C1_ExecAcceptsIffFinalFrontierAccepting ==
    ex_pc = "done" =>
        LET final == frontier_after(machine, word, << State(init_location, init_data) >>)
        IN  result = (\E k \in 1..Len(final) : final[k].location \in machine.accepting)

\* exec returned true on a word of two inputs or more whose final frontier holds
\* an accepting and a non-accepting configuration.
C1_Witness ==
    /\ ex_pc = "done"
    /\ result
    /\ Len(word) >= 2
    /\ \E k \in 1..Len(states) : states[k].location \notin machine.accepting

\* The bounded acceptor of examples/monitor.rs (scenario S3); its s0 self-loop
\* carries the bound [_, 10] in the example and no bound in the scenario's text.
BoundedAcceptor(self_loop_bound) ==
    Machine_new(
        [l \in Locs |->
            CASE l = "s0" ->
                    << Transition("s0", Enable("ne_b", unbounded), self_loop_bound, 0),
                       Transition("s1", Enable("eq_b", unbounded), UpTo(3), 1) >>
              [] l = "s1" ->
                    << Transition("s1", Enable("eq_b", unbounded), unbounded, 1),
                       Transition("s3", Enable("ne_b", unbounded), UpTo(3), 0) >>
              [] OTHER -> << >>],
        {"s1"})

BoundedAcceptors == { BoundedAcceptor(UpTo(10)), BoundedAcceptor(unbounded) }

is_prefix(p, w) == Len(p) <= Len(w) /\ SubSeq(w, 1, Len(p)) = p

\* C5: on the bounded acceptor, a monitor built with Monitor::new("s0", 0, M)
\* and fed 'c', 'b', 'c' returns None, None and then Some(false).
C5_ScenarioS5 ==
    ( /\ mon_pc = "ready"
      /\ machine \in BoundedAcceptors
      /\ init_location = "s0" /\ init_data = 0
      /\ is_prefix(word, << "c", "b", "c" >>) )
    => verdicts = SubSeq(<< "None", "None", "Some(false)" >>, 1, Len(word))

\* The locations mentioned in the transition graph, as a source or as a target.
mentioned(self) ==
    DOMAIN self.locations
        \cup UNION { { self.locations[l][k].to_location : k \in 1..Len(self.locations[l]) } :
                       l \in DOMAIN self.locations }

\* Deterministic and total: from every configuration of a mentioned location,
\* every input enables exactly one transition; and the guards imply the bounds.
deterministic_total(self) ==
    \A l \in mentioned(self), d \in D, i \in Inputs :
        Len(enabled_from(transitions_from(self, l), d, i)) = 1

guards_imply_bounds(self) ==
    \A l \in DOMAIN self.locations, d \in D, i \in Inputs :
        \A k \in 1..Len(self.locations[l]) :
            enable(self.locations[l][k].enable, d, i)
                => contains(self.locations[l][k].bound, d)

MonitoredMachines ==
    { m \in Machines : deterministic_total(m) /\ guards_imply_bounds(m) }

\* The input words of length at most n.
Words(n) == UNION { [1..k -> Inputs] : k \in 0..n }

\* The monitor committed to `verdict` on the last input of `word`, every earlier
\* call having returned None.
committed(verdict) ==
    /\ verdicts # << >>
    /\ Len(verdicts) = Len(word)
    /\ verdicts[Len(verdicts)] = verdict
    /\ \A k \in 1..(Len(verdicts) - 1) : verdicts[k] = "None"

\* exec(init_location, init_data, word \o ext) = true
accepts_extension(ext) ==
    accepting_fold(machine,
        frontier_after(machine, word \o ext, << State(init_location, init_data) >>))

\* C2: on a deterministic and total machine whose guards imply the bounds, once
\* the monitor has returned Some(false) on the last input of a prefix (None
\* before), exec accepts no extension of the prefix, the prefix included.
C2_SomeFalseIsSound ==
    (machine \in MonitoredMachines /\ committed("Some(false)"))
        => \A ext \in Words(MaxExt) : ~accepts_extension(ext)

\* C3: on a deterministic and total machine whose guards imply the bounds, once
\* the monitor has returned Some(true) on the last input of a prefix (None
\* before), exec accepts every extension of the prefix, the prefix included.
C3_SomeTrueIsSound ==
    (machine \in MonitoredMachines /\ committed("Some(true)"))
        => \A ext \in Words(MaxExt) : accepts_extension(ext)

\* C8: the complement keeps the transition graph, and its accepting set is the
\* set of mentioned locations (sources and targets) that the machine does not
\* accept.
C8_ComplementAcceptsTheOtherMentionedLocations ==
    mon_pc = "prove_from" =>
        /\ fne_self.locations = machine.locations
        /\ fne_self.accepting = mentioned(machine) \ machine.accepting

\* A concrete step along transition t from register value d: d lies inside
\* t.bound and the update does not overflow (where update_interval
\* over-approximates update).
concrete_step(t, d) == contains(t.bound, d) /\ ~add_overflows(d, t.update)

\* Some concrete run of at most k steps leads from (location, d) to an
\* accepting location.
RECURSIVE reaches_accepting(_, _, _, _)
reaches_accepting(self, location, d, k) ==
    \/ location \in self.accepting
    \/ /\ k > 0
       /\ LET ts == transitions_from(self, location)
          IN  \E j \in 1..Len(ts) :
                /\ concrete_step(ts[j], d)
                /\ reaches_accepting(self, ts[j].to_location, update(ts[j].update, d), k - 1)

in_map(map, location, d) == location \in DOMAIN map /\ contains(map[location], d)

\* Every configuration on a concrete run of at most k steps from (location, d)
\* to an accepting location is in the map.
RECURSIVE runs_covered(_, _, _, _, _)
runs_covered(self, map, location, d, k) ==
    /\ reaches_accepting(self, location, d, k) => in_map(map, location, d)
    /\ k > 0 =>
         LET ts == transitions_from(self, location)
         IN  \A j \in 1..Len(ts) :
                concrete_step(ts[j], d)
                    => runs_covered(self, map, ts[j].to_location, update(ts[j].update, d), k - 1)

\* C4: the map find_non_empty returns covers every configuration of every
\* concrete run from the start location to an accepting location, also when
\* the node budget cut the search off.
C4_FindNonEmptyIsSound ==
    fne_pc = "done" =>
        \A d \in D : runs_covered(fne_self, safe, init_location, d, MaxRun)

\* C9: during the search and in the map returned, every accepting location has
\* an entry whose interval contains the whole of [D::min_value(), D::max_value()].
C9_AcceptingLocationsAreFullySafe ==
    fne_pc \in {"loop", "done", "panicked"} =>
        \A l \in fne_self.accepting :
            /\ l \in DOMAIN safe
            /\ as_explicit(safe[l]) = << MinD, MaxD >>

\* An accepting location with an outgoing transition whose bound is narrower
\* than the domain was widened in the map, and is still fully safe.
C9_Witness ==
    /\ fne_pc = "done"
    /\ \E l \in fne_self.accepting :
         /\ l \in DOMAIN safe
         /\ safe[l] # unbounded
         /\ as_explicit(safe[l]) = << MinD, MaxD >>
         /\ \E k \in 1..Len(transitions_from(fne_self, l)) :
              transitions_from(fne_self, l)[k].bound # unbounded

\* The longest transition list of the machine: an iteration of the search loop
\* adds at most that many nodes to the arena.
RECURSIVE max_len(_, _)
max_len(self, ls) ==
    IF ls = {} THEN 0
    ELSE LET l == CHOOSE x \in ls : TRUE
         IN  Max2(Len(self.locations[l]), max_len(self, ls \ {l}))

fan_out(self) == max_len(self, DOMAIN self.locations)

\* A measure of the work left: an iteration that creates c nodes pops one index
\* and pushes c, so it lowers the measure by c + 1.
work_left(self, table, stack) ==
    2 * (MAX_NODES + fan_out(self) - Len(table)) + Len(stack)

next_returned == mon_pc = "ready" /\ word' # word /\ mon_pc' = "ready"

last(seq) == seq[Len(seq)]

\* C6: Monitor::next consults the prover first: Some(true) whenever the prover
\* commits (also when the falsifier would commit on the same input),
\* Some(false) when only the falsifier commits, None when neither commits.
C6_ProverIsConsultedFirst ==
    [][ next_returned =>
          LET pr == partial_next(prover, overflow_checks, last(word'))
              fr == partial_next(falsifier, overflow_checks, last(word'))
          IN  /\ pr.ret = "Ok(true)" => last(verdicts') = "Some(true)"
              /\ (pr.ret = "Ok(false)" /\ fr.ret = "Ok(true)")
                    => last(verdicts') = "Some(false)"
              /\ (pr.ret = "Ok(false)" /\ fr.ret = "Ok(false)")
                    => last(verdicts') = "None" ]_vars

\* The monitor has returned Some(true) on an input on which the falsifier, left
\* where it was, commits too.
C6_Witness ==
    /\ mon_pc = "ready"
    /\ verdicts # << >>
    /\ Len(verdicts) = Len(word)
    /\ last(verdicts) = "Some(true)"
    /\ \A k \in 1..(Len(verdicts) - 1) : verdicts[k] = "None"
    /\ partial_next(prover, overflow_checks, last(word)).ret = "Ok(true)"
    /\ partial_next(falsifier, overflow_checks, last(word)).ret = "Ok(true)"

\* The number of transitions enabled from the partial monitor's configuration.
enabled_count(pm, input) ==
    Len(enabled_from(transitions_from(pm.machine, pm.state.location), pm.state.data, input))

C18_IntersectIsSomeIffOverlap ==
    bnd_pc = "intersect" =>
        /\ out # << >> <=> \E d \in D : contains(lhs, d) /\ contains(rhs, d)
        /\ (lhs = From(10) /\ rhs = UpTo(15)) => out = << [lower |-> 10, upper |-> 15] >>
        /\ (lhs = From(10) /\ rhs = unbounded) => out = << From(10) >>
        /\ (lhs = From(20) /\ rhs = UpTo(15)) => out = << >>

\* Two intervals that share exactly one value, an endpoint of each, were
\* intersected.
C18_Witness ==
    /\ bnd_pc = "intersect"
    /\ lhs # rhs
    /\ out # << >>
    /\ as_explicit(out[1])[1] = as_explicit(out[1])[2]
    /\ as_explicit(lhs)[1] # as_explicit(lhs)[2]
    /\ as_explicit(rhs)[1] # as_explicit(rhs)[2]

\* C19: intersection is commutative: intersect(a, b) and intersect(b, a) are
\* both None or both Some of the same interval.
C19_IntersectIsCommutative ==
    bnd_pc = "intersect" => out = intersect(rhs, lhs)

\* The intersection of two intervals is a third interval.
C19_Witness ==
    /\ bnd_pc = "intersect"
    /\ out # << >>
    /\ out[1] # lhs
    /\ out[1] # rhs

\* C20: intersect(a, a) = Some(a), equal to a field by field.
C20_IntersectWithItselfIsIdentity ==
    (bnd_pc = "intersect" /\ rhs = lhs) => out = << lhs >>

\* C11: on the bounded acceptor, find_non_empty("s0") returns a map with
\* entries for s0 and s1 at least, the entry of s1 being the unbounded interval
\* and the entry of s0 containing 0.
C11_ScenarioS4 ==
    (fne_pc = "done" /\ fne_self \in BoundedAcceptors /\ init_location = "s0") =>
        /\ {"s0", "s1"} \subseteq DOMAIN safe
        /\ safe["s1"] = unbounded
        /\ contains(safe["s0"], 0)

\* The bound of the transition admits some register value.
satisfiable(t) == intersect(unbounded, t.bound) # << >>

\* The locations reached from those of `set` along transitions whose bounds
\* are satisfiable (those of `set` included).
RECURSIVE reachable_from(_, _)
reachable_from(self, set) ==
    LET step ==
            UNION { { self.locations[l][k].to_location :
                        k \in { j \in 1..Len(self.locations[l]) :
                                  satisfiable(self.locations[l][j]) } } :
                    l \in set \cap DOMAIN self.locations }
    IN  IF step \subseteq set THEN set ELSE reachable_from(self, set \cup step)

\* The accepting locations, and the locations reachable from `start` from
\* which an accepting location is reachable.
non_empty_locations(self, start) ==
    self.accepting
        \cup { l \in reachable_from(self, {start}) :
                 reachable_from(self, {l}) \cap self.accepting # {} }

\* C12: the locations with an entry in the map returned by find_non_empty(start)
\* are the accepting locations and the locations reachable from start from
\* which an accepting location is reachable along transitions with satisfiable
\* bounds; for the machine of examples/non_empty.rs and start s0 they are s0
\* and s1.
C12_MapLocationsAreTheNonEmptyLocations ==
    fne_pc = "done" =>
        /\ DOMAIN safe = non_empty_locations(fne_self, init_location)
        /\ (fne_self = NonEmptyExample /\ init_location = "s0")
              => DOMAIN safe = {"s0", "s1"}

\* C13: on the empty input sequence exec returns true if and only if the
\* initial location is accepting.
C13_EmptyInputAcceptsIffInitialLocationAccepting ==
    (ex_pc = "done" /\ word = << >>) => (result <=> init_location \in machine.accepting)

\* exec has accepted the empty word from a location with outgoing transitions.
C13_Witness ==
    /\ ex_pc = "done"
    /\ word = << >>
    /\ result
    /\ transitions_from(machine, init_location) # << >>

\* C17: on the bounded acceptor, exec("s0", 0, ['c','b','c']) returns false
\* with the single surviving configuration at s3, and exec("s0", 0, ['c','b'])
\* returns true.
C17_ScenarioS3 ==
    ( /\ ex_pc = "done"
      /\ machine \in BoundedAcceptors
      /\ init_location = "s0" /\ init_data = 0 )
    => /\ word = << "c", "b", "c" >>
            => (~result /\ Len(states) = 1 /\ states[1].location = "s3")
       /\ word = << "c", "b" >> => result

\* exec has run the bounded acceptor on 'c', 'b', 'c' from ("s0", 0).
C17_Witness ==
    /\ ex_pc = "done"
    /\ machine \in BoundedAcceptors
    /\ init_location = "s0" /\ init_data = 0
    /\ word = << "c", "b", "c" >>
    /\ ~result

\* The machine before its last with_transition(location, _) call: the list of
\* `location` without its last transition (and no key for an empty list).
without_last(self, location) ==
    LET ts == self.locations[location]
        short == SubSeq(ts, 1, Len(ts) - 1)
        keys == IF short = << >> THEN DOMAIN self.locations \ {location}
                ELSE DOMAIN self.locations
    IN  [locations |-> [l \in keys |-> IF l = location THEN short ELSE self.locations[l]],
         accepting |-> self.accepting]

\* `sub` is `seq` with some elements left out.
RECURSIVE is_subsequence(_, _)
is_subsequence(sub, seq) ==
    IF sub = << >> THEN TRUE
    ELSE IF seq = << >> THEN FALSE
    ELSE IF Head(sub) = Head(seq) THEN is_subsequence(Tail(sub), Tail(seq))
    ELSE is_subsequence(sub, Tail(seq))

\* C15: a machine with one more transition (same accepting set) accepts every
\* word the machine without it accepts, from every initial configuration, and
\* at every step the frontier of the smaller machine is a subsequence of the
\* frontier of the larger.
C15_AddingATransitionKeepsAcceptingRuns ==
    ex_pc \in {"loop", "done"} =>
        \A location \in DOMAIN machine.locations :
            LET smaller == without_last(machine, location)
                frontier == frontier_after(smaller, word,
                                << State(init_location, init_data) >>)
            IN  /\ is_subsequence(frontier, states)
                /\ (ex_pc = "done" /\ accepting_fold(smaller, frontier)) => result

\* The added transition has put a configuration on the frontier that the
\* smaller machine, which accepts the word too, does not have.
C15_Witness ==
    /\ ex_pc = "done"
    /\ Len(word) >= 2
    /\ result
    /\ \E location \in DOMAIN machine.locations :
         LET smaller == without_last(machine, location)
             frontier == frontier_after(smaller, word,
                             << State(init_location, init_data) >>)
         IN  /\ frontier # << >>
             /\ Len(frontier) < Len(states)
             /\ accepting_fold(smaller, frontier)

C21_IntersectionContainsTheCommonValues ==
    (bnd_pc = "intersect" /\ out # << >>) =>
        \A d \in D : contains(out[1], d) <=> (contains(lhs, d) /\ contains(rhs, d))

\* Two intervals overlap properly: each has a value the intersection lacks.
C21_Witness ==
    /\ bnd_pc = "intersect"
    /\ out # << >>
    /\ \E d \in D : contains(lhs, d) /\ ~contains(out[1], d)
    /\ \E d \in D : contains(rhs, d) /\ ~contains(out[1], d)

\* C22: from_explicit(as_explicit(x)) = x for every interval x.
C22_CanonicalizationRoundTrip ==
    (bnd_pc = "from_explicit" /\ pair = as_explicit(lhs)) => out = << lhs >>

\* An endpoint equal to an extreme of D is stored as unbounded.
canonical(bound) == bound.lower # MinD /\ bound.upper # MaxD

\* C22, for the intervals in canonical form: from_explicit(as_explicit(x)) = x.
C22_RoundTripOfCanonicalIntervals ==
    (bnd_pc = "from_explicit" /\ pair = as_explicit(lhs) /\ canonical(lhs)) => out = << lhs >>

\* C23: after a.union_with(b), a contains the interval b and the explicit
\* endpoints of a are the smaller of the two lowers and the larger of the two
\* uppers; when a contained b before the call, a is left as it was.
C23_WidenContainsAndIsIdempotent ==
    [][BoundUnionWith =>
        /\ contains_interval(lhs', rhs)
        /\ as_explicit(lhs') = << Min2(as_explicit(lhs)[1], as_explicit(rhs)[1]),
                                  Max2(as_explicit(lhs)[2], as_explicit(rhs)[2]) >>
        /\ contains_interval(lhs, rhs) => lhs' = lhs]_vars

\* C23, without the idempotence: after a.union_with(b), a contains the
\* interval b and has the smaller lower and the larger upper endpoint.
C23_WidenContains ==
    [][BoundUnionWith =>
        /\ contains_interval(lhs', rhs)
        /\ as_explicit(lhs') = << Min2(as_explicit(lhs)[1], as_explicit(rhs)[1]),
                                  Max2(as_explicit(lhs)[2], as_explicit(rhs)[2]) >>]_vars

\* C24: every interval the library stores or returns is in canonical form:
\* the result of intersect, the receiver after union_with, the interval of
\* every search node and every entry of the map of find_non_empty, during and
\* after the search, store an endpoint equal to an extreme of D as unbounded.
C24_StoredIntervalsAreCanonical ==
    /\ \A l \in DOMAIN safe : canonical(safe[l])
    /\ \A k \in 1..Len(nodes) : canonical(nodes[k].interval)
    /\ bnd_pc = "intersect" /\ out # << >> => canonical(out[1])
    /\ bnd_pc = "union_with" => canonical(lhs)

\* The configuration the one transition enabled from the partial monitor's
\* configuration leads to.
only_successor(pm, input) ==
    LET t == enabled_from(transitions_from(pm.machine, pm.state.location), pm.state.data, input)[1]
    IN  State(t.to_location, update(t.update, pm.state.data))

\* The map of the partial monitor has an entry for the location of the
\* configuration and the entry's interval contains its data.
in_non_empty_states(pm, st) ==
    /\ st.location \in DOMAIN pm.non_empty_states
    /\ contains(pm.non_empty_states[st.location], st.data)

\* C26: a partial monitor step with exactly one successor (l, d) is
\* inconclusive and moves the partial monitor to (l, d) if and only if its map
\* has an entry for l that contains d; otherwise it is conclusive. Seen through
\* Monitor::next: the prover is conclusive when the verdict is Some(true), and
\* the falsifier, consulted after an inconclusive prover, is conclusive when the
\* verdict is Some(false).
C26_PartialStepIsInconclusiveIffSuccessorInMap ==
    [][ next_returned =>
          LET input == last(word')
              verdict == last(verdicts')
          IN  /\ enabled_count(prover, input) = 1 =>
                    LET next == only_successor(prover, input)
                    IN  IF in_non_empty_states(prover, next)
                        THEN verdict # "Some(true)" /\ prover'.state = next
                        ELSE verdict = "Some(true)" /\ prover' = prover
              /\ (enabled_count(prover, input) = 1 /\ verdict # "Some(true)"
                     /\ enabled_count(falsifier, input) = 1) =>
                    LET next == only_successor(falsifier, input)
                    IN  IF in_non_empty_states(falsifier, next)
                        THEN verdict = "None" /\ falsifier'.state = next
                        ELSE verdict = "Some(false)" /\ falsifier' = falsifier ]_vars

\* The falsifier was conclusive on a successor whose location has an entry in
\* its map, the data lying outside the entry's interval.
C26_Witness ==
    /\ mon_pc = "ready"
    /\ Len(verdicts) = Len(word)
    /\ Len(word) >= 1
    /\ last(verdicts) = "Some(false)"
    /\ enabled_count(falsifier, last(word)) = 1
    /\ only_successor(falsifier, last(word)).location \in DOMAIN falsifier.non_empty_states
    /\ ~in_non_empty_states(falsifier, only_successor(falsifier, last(word)))

\* The node the next iteration of the search loop pops, and whether it passes
\* the hit test: its location is accepting, or the map has an entry for its
\* location whose interval contains the node's.
popped == At(nodes, nodes_to_visit[Len(nodes_to_visit)])

popped_is_hit ==
    \/ popped.location \in fne_self.accepting
    \/ /\ popped.location \in DOMAIN safe
       /\ as_explicit(safe[popped.location])[1] <= as_explicit(popped.interval)[1]
       /\ as_explicit(popped.interval)[2] <= as_explicit(safe[popped.location])[2]

\* C27: a popped node that passes the hit test ends its path's expansion: no
\* child node is created for it, and the search goes on with the rest of the
\* stack.
C27_HitEndsThePathExpansion ==
    [][ (FneLoop /\ popped_is_hit) =>
          /\ nodes' = nodes
          /\ nodes_to_visit' = SubSeq(nodes_to_visit, 1, Len(nodes_to_visit) - 1) ]_vars

\* The nodes of the arena path from the root to the popped node that have a
\* parent: one per edge of the path.
path_edges ==
    LET path == path_to(nodes, popped.idx)
    IN  { At(nodes, path[k]) : k \in { j \in 1..Len(path) : At(nodes, path[j]).parent # << >> } }

edge_source(node) == At(nodes, node.parent[1]).location
edge_post(node) == node.parent[2]

Least(S) == CHOOSE x \in S : \A y \in S : x <= y
Greatest(S) == CHOOSE x \in S : \A y \in S : x >= y

\* C28: when the popped node passes the hit test, the map afterwards has, for
\* every edge of the arena path from the root to it, an entry for the edge's
\* source location that contains the edge's annotated interval post (and is
\* post when the location had no entry and the path has one edge from it); an
\* entry spans what it held before and the posts of the path's edges from its
\* location and nothing more, so the interval of a child node is not written;
\* the entries of the other locations are left unchanged.
C28_HitWritesThePostIntervalsOfThePath ==
    [][ (FneLoop /\ popped_is_hit) =>
          LET sources == { edge_source(e) : e \in path_edges }
          IN  /\ DOMAIN safe' = DOMAIN safe \cup sources
              /\ \A l \in DOMAIN safe \ sources : safe'[l] = safe[l]
              /\ \A e \in path_edges : contains_interval(safe'[edge_source(e)], edge_post(e))
              /\ \A l \in sources :
                    LET from_l == { e \in path_edges : edge_source(e) = l }
                        written == { edge_post(e) : e \in from_l }
                                     \cup (IF l \in DOMAIN safe THEN { safe[l] } ELSE {})
                    IN  /\ as_explicit(safe'[l]) =
                              << Least({ as_explicit(b)[1] : b \in written }),
                                 Greatest({ as_explicit(b)[2] : b \in written }) >>
                        /\ (l \notin DOMAIN safe /\ Cardinality(from_l) = 1) =>
                              \A e \in from_l : safe'[l] = edge_post(e) ]_vars

\* The map holds, for a location that is not accepting, exactly the interval
\* annotated on an edge out of it, and the child of that edge has another
\* interval.
C28_Witness ==
    /\ fne_pc \in {"loop", "done"}
    /\ \E k \in 2..Len(nodes) :
         LET source == At(nodes, nodes[k].parent[1]).location
         IN  /\ source \notin fne_self.accepting
             /\ source \in DOMAIN safe
             /\ safe[source] = nodes[k].parent[2]
             /\ nodes[k].interval # nodes[k].parent[2]
             /\ as_explicit(nodes[k].interval) # as_explicit(nodes[k].parent[2])

\* C29: during find_non_empty the map only grows: no entry is removed, and the
\* values an entry contains after a step of the search include the values it
\* contained before the step.
C29_MapOnlyGrows ==
    [][ fne_pc = "loop" =>
          /\ DOMAIN safe \subseteq DOMAIN safe'
          /\ \A l \in DOMAIN safe :
                \A d \in D : contains(safe[l], d) => contains(safe'[l], d) ]_vars

\* An entry of a location that is not accepting has been widened: it contains
\* the intervals of two edges out of the location, and is neither of them.
C29_Witness ==
    /\ fne_pc \in {"loop", "done"}
    /\ \E j, k \in 2..Len(nodes) :
         LET source == At(nodes, nodes[k].parent[1]).location
         IN  /\ source = At(nodes, nodes[j].parent[1]).location
             /\ source \notin fne_self.accepting
             /\ source \in DOMAIN safe
             /\ contains_interval(safe[source], nodes[j].parent[2])
             /\ contains_interval(safe[source], nodes[k].parent[2])
             /\ as_explicit(safe[source]) # as_explicit(nodes[j].parent[2])
             /\ as_explicit(safe[source]) # as_explicit(nodes[k].parent[2])

\* The pairs (k, j) of a configuration states[k] and a transition, the j-th out
\* of its location, enabled on the input.
enabled_pairs(input) ==
    { p \in (1..Len(states)) \X (1..fan_out(machine)) :
        LET ts == transitions_from(machine, states[p[1]].location)
        IN  p[2] <= Len(ts) /\ enable(ts[p[2]].enable, states[p[1]].data, input) }

\* The position of a pair when the pairs are taken configuration by
\* configuration and, within one, transition by transition.
position(p, pairs) ==
    Cardinality({ q \in pairs : q[1] < p[1] \/ (q[1] = p[1] /\ q[2] <= p[2]) })

\* C30: one step of exec on input i visits the configurations in order and the
\* transitions out of each in insertion order, and appends (t.to_location,
\* t.update(d, i)) for exactly the enabled ones; duplicates stay, so the next
\* frontier is as long as there are (configuration, enabled transition) pairs.
C30_StepAppendsOneSuccessorPerEnabledTransition ==
    [][ (ex_pc = "loop" /\ ex_pc' = "loop" /\ word' # word) =>
          LET pairs == enabled_pairs(last(word'))
          IN  /\ Len(states') = Cardinality(pairs)
              /\ \A p \in pairs :
                    LET t == transitions_from(machine, states[p[1]].location)[p[2]]
                        d == states[p[1]].data
                    IN  states'[position(p, pairs)] =
                          [location |-> t.to_location,
                           data |-> IF t.update = SetTrue THEN 1
                                    ELSE (d + t.update) % (MaxD + 1)] ]_vars

\* The frontier holds the same configuration twice, beside another one.
C30_Witness ==
    /\ ex_pc = "loop"
    /\ word # << >>
    /\ \E j, k \in 1..Len(states) : j < k /\ states[j] = states[k]
    /\ \E j, k \in 1..Len(states) : states[j] # states[k]

\* The transitions passed to with_transition for a location, in call order.
passed_for(location) ==
    LET cs == SelectSeq(calls, LAMBDA c : c.op = "with_transition" /\ c.location = location)
    IN  [k \in 1..Len(cs) |-> cs[k].transition]

passed_accepting == { calls[k].location : k \in { j \in 1..Len(calls) : calls[j].op = "with_accepting" } }

\* C25: after any sequence of with_transition and with_accepting calls and
\* build, the transition list of each source location is the transitions
\* passed for it, in call order (a location has a list exactly when one was
\* passed), and the accepting set is the set of locations passed to
\* with_accepting; exec visits the transitions out of the initial location in
\* that order (the first frontier is the successors of the enabled ones in call
\* order) and so does find_non_empty (the children of the root are arena nodes
\* in call order).
C25_BuilderKeepsCallOrder ==
    bld_pc = "built" =>
        /\ DOMAIN machine.locations = { l \in BuilderLocations : passed_for(l) # << >> }
        /\ \A l \in DOMAIN machine.locations : machine.locations[l] = passed_for(l)
        /\ machine.accepting = passed_accepting
        /\ (ex_pc = "loop" /\ Len(word) = 1) =>
              LET ts == SelectSeq(passed_for(init_location),
                                  LAMBDA t : enable(t.enable, init_data, word[1]))
              IN  states = [k \in 1..Len(ts) |->
                              State(ts[k].to_location, update(ts[k].update, init_data))]
        /\ (fne_pc \in {"loop", "done"} /\ \A k \in 1..Len(nodes_to_visit) : nodes_to_visit[k] # 0) =>
              LET ts == SelectSeq(passed_for(init_location),
                                  LAMBDA t : intersect(unbounded, t.bound) # << >>)
                  children == SelectSeq(nodes, LAMBDA n : n.parent # << >> /\ n.parent[1] = 0)
              IN  /\ Len(children) = Len(ts)
                  /\ \A k \in 1..Len(ts) :
                        /\ children[k].idx = k
                        /\ children[k].location = ts[k].to_location
                        /\ children[k].parent[2] = intersect(unbounded, ts[k].bound)[1]

\* Two different transitions were passed for s0, an accepting location was
\* passed between them, and exec on the built machine has taken a step on 'b'.
C25_Witness ==
    /\ bld_pc = "built"
    /\ Len(calls) = 3
    /\ calls[1].op = "with_transition" /\ calls[1].location = "s0"
    /\ calls[2].op = "with_accepting"
    /\ calls[3].op = "with_transition" /\ calls[3].location = "s0"
    /\ calls[1].transition # calls[3].transition
    /\ ex_pc = "loop" /\ word = << "b" >>
    /\ Len(states) = 2

\* The same calls, and find_non_empty on the built machine has expanded the
\* root.
C25_WitnessAnalyzer ==
    /\ bld_pc = "built"
    /\ Len(calls) = 3
    /\ calls[1].op = "with_transition" /\ calls[1].location = "s0"
    /\ calls[3].op = "with_transition" /\ calls[3].location = "s0"
    /\ calls[1].transition # calls[3].transition
    /\ fne_pc = "loop" /\ Len(nodes) = 3

nothing_enabled(input) ==
    \A k \in 1..Len(states) :
        LET ts == transitions_from(machine, states[k].location)
        IN  \A j \in 1..Len(ts) : ~enable(ts[j].enable, states[k].data, input)

\* C32: configurations without an enabled transition are dropped without an
\* error: a step on which no configuration has an enabled transition leaves the
\* frontier empty, an empty frontier stays empty on every later input, and on
\* an empty frontier exec returns false.
C32_EmptyFrontierStaysEmpty ==
    [][ /\ (ex_pc = "loop" /\ word' # word /\ nothing_enabled(last(word'))) =>
              (ex_pc' = "loop" /\ states' = << >>)
        /\ (ex_pc = "loop" /\ states = << >>) =>
              /\ ex_pc' \in {"loop", "done"}
              /\ states' = << >>
              /\ ex_pc' = "done" => ~result' ]_vars

\* exec has returned on a word whose first input already emptied the frontier.
C32_Witness ==
    /\ ex_pc = "done"
    /\ Len(word) >= 2
    /\ states = << >>
    /\ ~result
    /\ init_location \in machine.accepting
    /\ frontier_after(machine, SubSeq(word, 1, 1), << State(init_location, init_data) >>) = << >>

\* Along the run of exec on the word, the frontier is one configuration with
\* exactly one transition enabled for every input: the machine is deterministic
\* and total at every configuration reached on a prefix of the word.
RECURSIVE deterministic_total_along(_, _, _)
deterministic_total_along(self, w, sts) ==
    /\ Len(sts) = 1
    /\ \A i \in Inputs :
          Len(enabled_from(transitions_from(self, sts[1].location), sts[1].data, i)) = 1
    /\ w # << >> => deterministic_total_along(self, Tail(w), transition(self, Head(w), sts))

\* C39: for a machine deterministic and total from (l0, d0),
\* complement(M).exec(l0, d0, w) is the negation of M.exec(l0, d0, w), for the
\* empty word as well.
C39_ComplementNegatesExec ==
    (ex_pc = "done"
        /\ deterministic_total_along(machine, word, << State(init_location, init_data) >>)) =>
        LET co == complement(machine)
        IN  accepting_fold(co, frontier_after(co, word, << State(init_location, init_data) >>))
                = ~result

\* exec returned true after a run through two locations of such a machine.
C39_Witness ==
    /\ ex_pc = "done"
    /\ Len(word) >= 2
    /\ deterministic_total_along(machine, word, << State(init_location, init_data) >>)
    /\ result
    /\ states[1].location # init_location

\* C34: AddUpdate's update_interval is a sound lift of update: for every
\* interval b and every d in b whose sum d + amount does not overflow,
\* update(d) = d + amount lies in update_interval(b); an upper endpoint whose
\* sum would overflow becomes unbounded and does not wrap.
C34_AddUpdateLiftIsSound ==
    bnd_pc = "update_interval" =>
        /\ \A d \in D :
              (contains(lhs, d) /\ d + applied <= MaxD) =>
                  /\ update(applied, d) = d + applied
                  /\ contains(out[1], d + applied)
        /\ as_explicit(lhs)[2] + applied > MaxD => out[1].upper = None

\* The upper endpoint's sum overflows, the lower endpoint's does not.
C34_Witness ==
    /\ bnd_pc = "update_interval"
    /\ applied > 0
    /\ as_explicit(lhs)[2] + applied > MaxD
    /\ as_explicit(lhs)[1] + applied <= MaxD
    /\ lhs.upper # None
    /\ out[1].upper = None

\* C33: complement and find_non_empty return success for every machine and
\* every start location, so Monitor::new returns a monitor: its construction
\* never ends otherwise than by the two searches returning their maps.
C33_ConstructionAlwaysSucceeds ==
    /\ mon_pc = "panicked" => word # << >>
    /\ mon_pc \in {"prove_from", "falsify_from"} => fne_pc = "loop"

\* Every call of Monitor::next so far has returned Ok(None).
all_inconclusive == \A k \in 1..Len(verdicts) : verdicts[k] = "None"

\* C35: after Monitor::next calls that all returned Ok(None), the prover and
\* the falsifier are at the same (location, data), the one configuration the
\* machine reaches from the initial configuration on the inputs consumed.
C35_ProverAndFalsifierMoveInLockstep ==
    (mon_pc = "ready" /\ all_inconclusive) =>
        /\ prover.state = falsifier.state
        /\ frontier_after(machine, word, << State(init_location, init_data) >>)
              = << prover.state >>

\* Three inconclusive steps have moved the monitor to another location and
\* register value.
C35_Witness ==
    /\ mon_pc = "ready"
    /\ all_inconclusive
    /\ Len(word) >= 3
    /\ prover.state.location # init_location
    /\ prover.state.data # init_data

\* C36: while all earlier verdicts were None, Monitor::next does not return
\* Some(false) on a step whose successor is at an accepting location of the
\* machine, and does not return Some(true) on a step whose successor is at a
\* location that is not accepting and has an outgoing transition.
C36_VerdictAgreesWithTheSuccessorLocation ==
    [][ (next_returned /\ all_inconclusive /\ enabled_count(prover, last(word')) = 1) =>
          LET next == only_successor(prover, last(word'))
          IN  /\ next.location \in machine.accepting => last(verdicts') # "Some(false)"
              /\ (next.location \notin machine.accepting
                    /\ next.location \in DOMAIN machine.locations)
                    => last(verdicts') # "Some(true)" ]_vars

\* After an inconclusive step, a step to an accepting location from which no
\* location outside the accepting set can be reached returned Some(true).
C36_Witness ==
    /\ mon_pc = "ready"
    /\ Len(verdicts) >= 2
    /\ \A k \in 1..(Len(verdicts) - 1) : verdicts[k] = "None"
    /\ last(verdicts) = "Some(true)"
    /\ enabled_count(prover, last(word)) = 1
    /\ only_successor(prover, last(word)).location \in machine.accepting

\* The locations that are not accepting in the machine and have no outgoing
\* transition.
dead_ends == { l \in Locs : l \notin machine.accepting /\ l \notin DOMAIN machine.locations }

C38_ConclusiveAndFailedStepsChangeNothing ==
    [][ next_returned =>
          LET input == last(word')
              verdict == last(verdicts')
              prover_failed == enabled_count(prover, input) # 1
          IN  /\ prover'.machine = prover.machine
              /\ prover'.non_empty_states = prover.non_empty_states
              /\ falsifier'.machine = falsifier.machine
              /\ falsifier'.non_empty_states = falsifier.non_empty_states
              /\ (verdict = "Some(true)" \/ prover_failed) =>
                    (prover' = prover /\ falsifier' = falsifier)
              /\ verdict \in {"Some(false)", "Err(TransitionFailed)"} => falsifier' = falsifier
              /\ verdict = "None" =>
                    (prover'.state = only_successor(prover, input)
                       /\ falsifier'.state = only_successor(falsifier, input))
              /\ (word # << >> /\ input = last(word)
                     /\ (last(verdicts) = "Some(true)"
                           \/ (last(verdicts) = "Err(TransitionFailed)" /\ prover_failed)))
                    => verdict = last(verdicts) ]_vars

\* Monitor::next returned Some(true) twice on the same input, after an
\* inconclusive step that moved the monitor.
C38_Witness ==
    /\ mon_pc = "ready"
    /\ Len(verdicts) >= 3
    /\ verdicts[1] = "None"
    /\ prover.state # State(init_location, init_data)
    /\ verdicts[Len(verdicts) - 1] = "Some(true)"
    /\ last(verdicts) = "Some(true)"
    /\ word[Len(word) - 1] = last(word)

\* C40: throughout find_non_empty the arena is append-only and bounded: a
\* step keeps the nodes it found and appends new ones, the idx of every node is
\* its position, the parent index of every node but the root is smaller than
\* the node's own index, the stack after a step is the stack without its top
\* followed by the indices of the nodes just appended (each index is pushed
\* once), and the arena holds at most MAX_NODES plus the largest fan-out nodes.
C40_ArenaIsAppendOnlyAndBounded ==
    [][ /\ Len(nodes') >= Len(nodes)
        /\ fne_pc = "loop" => SubSeq(nodes', 1, Len(nodes)) = nodes
        /\ \A k \in 1..Len(nodes') :
              /\ nodes'[k].idx = k - 1
              /\ (nodes'[k].parent = << >>) <=> (k = 1)
              /\ nodes'[k].parent # << >> =>
                    (nodes'[k].parent[1] >= 0 /\ nodes'[k].parent[1] < nodes'[k].idx)
        /\ (fne_pc = "loop" /\ fne_pc' = "loop") =>
              nodes_to_visit' = SubSeq(nodes_to_visit, 1, Len(nodes_to_visit) - 1)
                                  \o [k \in 1..(Len(nodes') - Len(nodes)) |-> Len(nodes) + k - 1]
        /\ fne_pc = "idle" => (fne_pc' = "loop" => nodes_to_visit' = << 0 >>)
        /\ Len(nodes') <= MAX_NODES + fan_out(fne_self') ]_vars

\* The search was cut off by the node budget with nodes left on the stack.
C40_Witness ==
    /\ fne_pc = "done"
    /\ Len(nodes) > MAX_NODES
    /\ nodes_to_visit # << >>

====
